---- MODULE Spec2Model ----
(***************************************************************************)
(* Model of scraper.py: the top-level run (run_downloader), the per report *)
(* type cycle (download_report), the row loop with its date cutoff, and    *)
(* the remote folder resolution and upload (get_or_create_folder,          *)
(* upload_to_drive).  The browser, the HTTP fetch and the remote store are *)
(* environments: each call into them either succeeds or raises.            *)
(***************************************************************************)
EXTENDS Integers, Sequences, FiniteSets, TLC

\* ------------------------------------------------------------------ bounds
\* Most rows the two report tables of the page hold together.
MaxRows == 2
\* Most times the program is run in sequence against the same store.
MaxRuns == 2

\* ------------------------------------------------------------- input data
TypeSet == {"Quarterly", "Annual"}
Companies == {"ABC"}

\* Text of a date cell, as the tokens of "DD Mon YYYY"; <<>> is a cell with
\* no content at all.
DateNew == <<1, "Mar", 2024>>
DateEq == <<1, "Jan", 2024>>
DateOld == <<1, "Dec", 2023>>
DateBad == <<30, "Feb", 2024>>
EmptyCell == <<>>

\* The start date argument, as the tokens of "YYYY-MM-DD".
Cutoffs == {<<2024, 1, 1>>}

RowKinds ==
    { [ncells |-> 2, datecell |-> d, pdf |-> TRUE] : d \in {DateNew, DateEq, DateOld} }
    \cup { [ncells |-> 2, datecell |-> DateBad, pdf |-> TRUE],
           [ncells |-> 2, datecell |-> EmptyCell, pdf |-> TRUE],
           [ncells |-> 1, datecell |-> DateNew, pdf |-> FALSE],
           [ncells |-> 2, datecell |-> DateNew, pdf |-> FALSE] }

RowSeqs == UNION { [1..n -> RowKinds] : n \in 0..MaxRows }

\* What a tab renders: the container div, whether some <tr> outside <tbody>
\* (a header row) is visible, whether the table has a <tbody>, and the rows
\* of the <tbody>.
Tables ==
    { [container |-> TRUE, header |-> TRUE, tbody |-> TRUE, rows |-> r] : r \in RowSeqs }
    \cup { [container |-> TRUE, header |-> FALSE, tbody |-> TRUE, rows |-> <<>>],
           [container |-> FALSE, header |-> FALSE, tbody |-> FALSE, rows |-> <<>>],
           [container |-> TRUE, header |-> TRUE, tbody |-> FALSE, rows |-> <<>>] }

Pages ==
    { p \in [TypeSet -> Tables] :
        Len(p["Quarterly"].rows) + Len(p["Annual"].rows) <= MaxRows }

RootId == 0

\* A store some earlier run for company XYZ left behind.
SeededFolders ==
    { [id |-> 1, name |-> "CSE Reports", parent |-> RootId],
      [id |-> 2, name |-> "XYZ", parent |-> 1],
      [id |-> 3, name |-> "Quarterly Reports", parent |-> 2] }

InitialFolders == { {}, SeededFolders }

\* --------------------------------------------------------- pure functions
MonthNum ==
    [m \in {"Jan", "Feb", "Mar", "Apr", "May", "Jun",
            "Jul", "Aug", "Sep", "Oct", "Nov", "Dec"} |->
        CASE m = "Jan" -> 1 [] m = "Feb" -> 2 [] m = "Mar" -> 3 [] m = "Apr" -> 4
          [] m = "May" -> 5 [] m = "Jun" -> 6 [] m = "Jul" -> 7 [] m = "Aug" -> 8
          [] m = "Sep" -> 9 [] m = "Oct" -> 10 [] m = "Nov" -> 11 [] m = "Dec" -> 12]

IsLeap(y) == (y % 4 = 0 /\ y % 100 # 0) \/ y % 400 = 0

DaysIn(y, m) ==
    IF m = 2 THEN (IF IsLeap(y) THEN 29 ELSE 28)
    ELSE IF m \in {4, 6, 9, 11} THEN 30 ELSE 31

\* datetime.strptime(text, '%d %b %Y'): a date, or ValueError (ok = FALSE).
StrptimeDMY(text) ==
    IF /\ Len(text) = 3
       /\ text[2] \in DOMAIN MonthNum
       /\ text[1] >= 1
       /\ text[1] <= DaysIn(text[3], MonthNum[text[2]])
    THEN [ok |-> TRUE, y |-> text[3], m |-> MonthNum[text[2]], d |-> text[1]]
    ELSE [ok |-> FALSE, y |-> 0, m |-> 0, d |-> 0]

\* datetime.strptime(text, '%Y-%m-%d')
StrptimeISO(text) ==
    IF /\ Len(text) = 3
       /\ text[2] \in 1..12
       /\ text[3] >= 1
       /\ text[3] <= DaysIn(text[1], text[2])
    THEN [ok |-> TRUE, y |-> text[1], m |-> text[2], d |-> text[3]]
    ELSE [ok |-> FALSE, y |-> 0, m |-> 0, d |-> 0]

\* date_obj >= cutoff_date
DateGE(a, b) ==
    \/ a.y > b.y
    \/ a.y = b.y /\ a.m > b.m
    \/ a.y = b.y /\ a.m = b.m /\ a.d >= b.d

\* date_obj.strftime('%Y-%m-%d') joined with the company code and ".pdf"
LocalFilename(date, code) == <<date.y, date.m, date.d, code>>

\* Variant of RowDecision: a row dated before the cutoff is passed over
\* (continue) instead of ending the loop (break).
RowDecisionContinues(row, cutoff) ==
    IF row.ncells < 2 THEN "skip"
    ELSE IF row.datecell = EmptyCell THEN "crash"
    ELSE LET p == StrptimeDMY(row.datecell) IN
         IF ~p.ok THEN "skip"
         ELSE IF DateGE(p, cutoff) THEN (IF row.pdf THEN "fetch" ELSE "skip")
         ELSE "skip"

\* What the loop body does with one row: "skip" (continue), "stop" (break),
\* "fetch" (download and upload) or "crash" (an exception other than
\* ValueError, raised outside the inner try).
RowDecision(row, cutoff) ==
    IF row.ncells < 2 THEN "skip"
    ELSE IF row.datecell = EmptyCell THEN "crash"
    ELSE LET p == StrptimeDMY(row.datecell) IN
         IF ~p.ok THEN "skip"
         ELSE IF DateGE(p, cutoff) THEN (IF row.pdf THEN "fetch" ELSE "skip")
         ELSE "stop"

\* ------------------------------------------------------------ remote store
\* A store is [folders, files, next]: folders and files are sets of
\* [id, name, parent]; next is the identifier the next created item gets.
Matches(st, name, parent) ==
    { f \in st.folders : f.name = name /\ f.parent = parent }

\* Variant of GetOrCreateFolder: no lookup, the folder is always created.
GetOrCreateFolderAlwaysCreates(st, name, parent) ==
    [id |-> st.next, created |-> TRUE,
     store |-> [st EXCEPT !.folders = @ \cup {[id |-> st.next, name |-> name, parent |-> parent]},
                          !.next = @ + 1]]

\* get_or_create_folder with both remote calls succeeding.
GetOrCreateFolder(st, name, parent) ==
    LET found == Matches(st, name, parent) IN
    IF found # {}
    THEN [id |-> (CHOOSE f \in found : \A g \in found : f.id <= g.id).id,
          created |-> FALSE, store |-> st]
    ELSE [id |-> st.next, created |-> TRUE,
          store |-> [st EXCEPT !.folders = @ \cup {[id |-> st.next, name |-> name, parent |-> parent]},
                               !.next = @ + 1]]

\* Variant of UploadToDrive: the report type folder is resolved directly
\* under "CSE Reports".
UploadToDriveSkipsCompany(st, title, code, type, fault) ==
    LET r1 == GetOrCreateFolder(st, "CSE Reports", RootId)
        r3 == GetOrCreateFolder(r1.store, type \o " Reports", r1.id)
        c1 == <<"CSE Reports", RootId, r1.id, r1.created>>
        c3 == <<type \o " Reports", r1.id, r3.id, r3.created>>
    IN  IF fault = "root" THEN [ok |-> FALSE, store |-> st, calls |-> <<>>]
        ELSE IF fault \in {"company", "type"} THEN [ok |-> FALSE, store |-> r1.store, calls |-> <<c1>>]
        ELSE IF fault = "file" THEN [ok |-> FALSE, store |-> r3.store, calls |-> <<c1, c3>>]
        ELSE [ok |-> TRUE, calls |-> <<c1, c3>>,
              store |-> [r3.store EXCEPT
                  !.files = @ \cup {[id |-> r3.store.next, name |-> title, parent |-> r3.id]},
                  !.next = @ + 1]]

\* Variant of UploadToDrive: a title already in the destination folder is
\* not uploaded again.
UploadToDriveOncePerTitle(st, title, code, type, fault) ==
    LET r1 == GetOrCreateFolder(st, "CSE Reports", RootId)
        r2 == GetOrCreateFolder(r1.store, code, r1.id)
        r3 == GetOrCreateFolder(r2.store, type \o " Reports", r2.id)
        c1 == <<"CSE Reports", RootId, r1.id, r1.created>>
        c2 == <<code, r1.id, r2.id, r2.created>>
        c3 == <<type \o " Reports", r2.id, r3.id, r3.created>>
        present == \E f \in r3.store.files : f.name = title /\ f.parent = r3.id
    IN  IF fault = "root" THEN [ok |-> FALSE, store |-> st, calls |-> <<>>]
        ELSE IF fault = "company" THEN [ok |-> FALSE, store |-> r1.store, calls |-> <<c1>>]
        ELSE IF fault = "type" THEN [ok |-> FALSE, store |-> r2.store, calls |-> <<c1, c2>>]
        ELSE IF fault = "file" THEN [ok |-> FALSE, store |-> r3.store, calls |-> <<c1, c2, c3>>]
        ELSE IF present THEN [ok |-> TRUE, calls |-> <<c1, c2, c3>>, store |-> r3.store]
        ELSE [ok |-> TRUE, calls |-> <<c1, c2, c3>>,
              store |-> [r3.store EXCEPT
                  !.files = @ \cup {[id |-> r3.store.next, name |-> title, parent |-> r3.id]},
                  !.next = @ + 1]]

\* The result of an upload_to_drive that gets as far as `fault` allows:
\* fault names the remote call that raises ("root", "company", "type" for the
\* three folder resolutions, "file" for the file upload), or is "none".
UploadToDrive(st, title, code, type, fault) ==
    LET r1 == GetOrCreateFolder(st, "CSE Reports", RootId)
        r2 == GetOrCreateFolder(r1.store, code, r1.id)
        r3 == GetOrCreateFolder(r2.store, type \o " Reports", r2.id)
        c1 == <<"CSE Reports", RootId, r1.id, r1.created>>
        c2 == <<code, r1.id, r2.id, r2.created>>
        c3 == <<type \o " Reports", r2.id, r3.id, r3.created>>
    IN  IF fault = "root" THEN [ok |-> FALSE, store |-> st, calls |-> <<>>]
        ELSE IF fault = "company" THEN [ok |-> FALSE, store |-> r1.store, calls |-> <<c1>>]
        ELSE IF fault = "type" THEN [ok |-> FALSE, store |-> r2.store, calls |-> <<c1, c2>>]
        ELSE IF fault = "file" THEN [ok |-> FALSE, store |-> r3.store, calls |-> <<c1, c2, c3>>]
        ELSE [ok |-> TRUE, calls |-> <<c1, c2, c3>>,
              store |-> [r3.store EXCEPT
                  !.files = @ \cup {[id |-> r3.store.next, name |-> title, parent |-> r3.id]},
                  !.next = @ + 1]]

UploadFaults == {"root", "company", "type", "file"}
RowFaults == {"none", "fetch", "remove"} \cup UploadFaults

\* Variant of FetchAndUpload: a failed fetch is passed over and the loop
\* goes on.
FetchAndUploadSkipsFailedFetch(row, st, dsk, code, type, fault) ==
    LET fname == LocalFilename(StrptimeDMY(row.datecell), code)
        up == UploadToDrive(st, fname, code, type, IF fault \in UploadFaults THEN fault ELSE "none")
    IN  IF fault = "fetch"
        THEN [raised |-> "none", wrote |-> FALSE, sent |-> FALSE, counted |-> FALSE,
              store |-> st, disk |-> dsk, calls |-> <<>>]
        ELSE IF ~up.ok
        THEN [raised |-> "upload", wrote |-> TRUE, sent |-> FALSE, counted |-> FALSE,
              store |-> up.store, disk |-> dsk \cup {fname}, calls |-> up.calls]
        ELSE IF fault = "remove"
        THEN [raised |-> "remove", wrote |-> TRUE, sent |-> TRUE, counted |-> FALSE,
              store |-> up.store, disk |-> dsk \cup {fname}, calls |-> up.calls]
        ELSE [raised |-> "none", wrote |-> TRUE, sent |-> TRUE, counted |-> TRUE,
              store |-> up.store, disk |-> (dsk \cup {fname}) \ {fname}, calls |-> up.calls]

\* Lines 102-120 for one qualifying row: fetch, write the local file, upload,
\* remove the local file, count.  `raised` is "none" when the row went through.
FetchAndUpload(row, st, dsk, code, type, fault) ==
    LET fname == LocalFilename(StrptimeDMY(row.datecell), code)
        up == UploadToDrive(st, fname, code, type, IF fault \in UploadFaults THEN fault ELSE "none")
    IN  IF fault = "fetch"
        THEN [raised |-> "fetch", wrote |-> FALSE, sent |-> FALSE, counted |-> FALSE,
              store |-> st, disk |-> dsk, calls |-> <<>>]
        ELSE IF ~up.ok
        THEN [raised |-> "upload", wrote |-> TRUE, sent |-> FALSE, counted |-> FALSE,
              store |-> up.store, disk |-> dsk \cup {fname}, calls |-> up.calls]
        ELSE IF fault = "remove"
        THEN [raised |-> "remove", wrote |-> TRUE, sent |-> TRUE, counted |-> FALSE,
              store |-> up.store, disk |-> dsk \cup {fname}, calls |-> up.calls]
        ELSE [raised |-> "none", wrote |-> TRUE, sent |-> TRUE, counted |-> TRUE,
              store |-> up.store, disk |-> (dsk \cup {fname}) \ {fname}, calls |-> up.calls]

\* Variant of ExceptDownloadReport: the exception leaves download_report and
\* reaches run_downloader's except clause.
ExceptPropagates(type, out) ==
    [pc |-> "finally", critical |-> TRUE, outcome |-> [out EXCEPT ![type] = "error"]]

\* The except clause of download_report: the exception ends the cycle, which
\* returns normally to run_downloader.
ExceptDownloadReport(type, out) ==
    [pc |-> "cycle_end", critical |-> FALSE, outcome |-> [out EXCEPT ![type] = "error"]]

Range(f) == { f[k] : k \in DOMAIN f }

\* ------------------------------------------------------------------- state
VARIABLES
    pc,              \* where run_downloader / download_report stands
    run,             \* which run of the program this is (1, 2, ...)
    company,         \* company_code argument
    start_date_str,  \* start date argument
    page,            \* what each report tab of the site renders
    store,           \* the remote store: folders, files, next identifier
    disk,            \* file names present in temp_reports
    browser,         \* "none", "open" or "closed"
    critical,        \* run_downloader's own except clause was entered
    rtype,           \* report_type of the current cycle
    outcome,         \* per report type, how its cycle of this run ended
    rows,            \* all_report_rows
    i,               \* index of the row the loop stands at
    downloads_found,
    log,             \* this cycle: rows examined, fetched, written, uploaded; the row
                     \* whose fetch failed; what raised
    calls,           \* (name, parent, id) of every get_or_create_folder return so far
    recreated,       \* some call for an already resolved (name, parent) created a folder
    allNormal,       \* nothing has raised so far, in this run or an earlier one
    foldersAtStart   \* the store's folders when this run started

vars == <<pc, run, company, start_date_str, page, store, disk, browser, critical,
          rtype, outcome, rows, i, downloads_found, log, calls, recreated,
          allNormal, foldersAtStart>>

inputs == <<company, start_date_str, page>>
locals == <<rows, i, downloads_found, log>>
history == <<calls, recreated>>

NoOutcome == [t \in TypeSet |-> "none"]
EmptyLog == [examined |-> <<>>, fetched |-> <<>>, written |-> <<>>, uploaded |-> <<>>,
             failedFetch |-> 0, cause |-> "none"]

Init ==
    /\ pc = "auth"
    /\ run = 1
    /\ company \in Companies
    /\ start_date_str \in Cutoffs
    /\ page \in Pages
    /\ \E fs \in InitialFolders :
          /\ store = [folders |-> fs, files |-> {}, next |-> Cardinality(fs) + 1]
          /\ foldersAtStart = fs
    /\ disk = {}
    /\ browser = "none"
    /\ critical = FALSE
    /\ rtype = "Quarterly"
    /\ outcome = NoOutcome
    /\ rows = <<>>
    /\ i = 1
    /\ downloads_found = 0
    /\ log = EmptyLog
    /\ calls = {}
    /\ recreated = FALSE
    /\ allNormal = TRUE

\* ----------------------------------------------------------------- actions
\* run_downloader, lines 133-139: authentication; on failure the run returns
\* before any browser is started.
Authenticate ==
    /\ pc = "auth"
    /\ \E ok \in BOOLEAN :
          /\ pc' = IF ok THEN "launch" ELSE "done"
          /\ allNormal' = (allNormal /\ ok)
    /\ UNCHANGED <<run, inputs, store, disk, browser, critical, rtype, outcome,
                   locals, history, foldersAtStart>>

\* lines 149-153: driver = None, then the browser session is started.
LaunchBrowser ==
    /\ pc = "launch"
    /\ \E ok \in BOOLEAN :
          /\ pc' = IF ok THEN "navigate" ELSE "finally"
          /\ browser' = IF ok THEN "open" ELSE browser
          /\ critical' = ~ok
          /\ allNormal' = (allNormal /\ ok)
    /\ UNCHANGED <<run, inputs, store, disk, rtype, outcome, locals, history,
                   foldersAtStart>>

\* lines 154-160: load the company page and click the Financials tab.
OpenCompanyPage ==
    /\ pc = "navigate"
    /\ \E ok \in BOOLEAN :
          /\ pc' = IF ok THEN "cycle" ELSE "finally"
          /\ critical' = ~ok
          /\ allNormal' = (allNormal /\ ok)
    /\ rtype' = "Quarterly"
    /\ UNCHANGED <<run, inputs, store, disk, browser, outcome, locals, history,
                   foldersAtStart>>

\* download_report, lines 65-88: click the tab, wait for a visible <tr> of
\* the table, parse the page, read the rows, parse the cutoff.
OpenTab ==
    /\ pc = "cycle"
    /\ \E timeout \in BOOLEAN :
          LET t == page[rtype]
              visible == t.container /\ (t.header \/ t.rows # <<>>)
              raise == IF timeout THEN "timeout"
                       ELSE IF ~visible THEN "norows"
                       ELSE IF ~t.container THEN "none"
                       ELSE IF ~t.tbody THEN "parse"
                       ELSE IF t.rows = <<>> THEN "none"
                       ELSE IF ~StrptimeISO(start_date_str).ok THEN "cutoff"
                       ELSE "none"
              returns == ~t.container \/ t.rows = <<>>
              ex == ExceptDownloadReport(rtype, outcome)
          IN  IF raise # "none"
              THEN /\ pc' = ex.pc
                   /\ critical' = ex.critical
                   /\ outcome' = ex.outcome
                   /\ log' = [log EXCEPT !.cause = raise]
                   /\ allNormal' = FALSE
                   /\ UNCHANGED <<rows, i, downloads_found>>
              ELSE IF returns
              THEN /\ pc' = "cycle_end"
                   /\ outcome' = [outcome EXCEPT ![rtype] = "returned"]
                   /\ UNCHANGED <<critical, locals, allNormal>>
              ELSE /\ pc' = "loop"
                   /\ rows' = t.rows
                   /\ i' = 1
                   /\ downloads_found' = 0
                   /\ UNCHANGED <<critical, outcome, log, allNormal>>
    /\ UNCHANGED <<run, inputs, store, disk, browser, rtype, history, foldersAtStart>>

\* One iteration of the row loop, lines 90-123.
ProcessRow ==
    /\ pc = "loop"
    /\ i <= Len(rows)
    /\ \E fault \in RowFaults :
          LET row == rows[i]
              dec == RowDecision(row, StrptimeISO(start_date_str))
              r == FetchAndUpload(row, store, disk, company, rtype, fault)
              raised == IF dec = "crash" THEN "emptycell"
                        ELSE IF dec = "fetch" THEN r.raised ELSE "none"
              ex == ExceptDownloadReport(rtype, outcome)
              seen == [log EXCEPT !.examined = Append(@, i)]
          IN  /\ dec # "fetch" => fault = "none"
              /\ IF raised # "none"
                 THEN /\ pc' = ex.pc
                      /\ critical' = ex.critical
                      /\ outcome' = ex.outcome
                      /\ allNormal' = FALSE
                      /\ UNCHANGED i
                 ELSE /\ pc' = IF dec = "stop" THEN "after_loop" ELSE "loop"
                      /\ i' = IF dec = "stop" THEN i ELSE i + 1
                      /\ UNCHANGED <<critical, outcome, allNormal>>
              /\ IF dec = "fetch"
                 THEN /\ store' = r.store
                      /\ disk' = r.disk
                      /\ downloads_found' = downloads_found + (IF r.counted THEN 1 ELSE 0)
                      /\ log' = [seen EXCEPT
                            !.fetched = Append(@, i),
                            !.written = IF r.wrote THEN Append(@, i) ELSE @,
                            !.uploaded = IF r.sent THEN Append(@, i) ELSE @,
                            !.failedFetch = IF fault = "fetch" THEN i ELSE @,
                            !.cause = raised]
                      /\ calls' = calls \cup { <<c[1], c[2], c[3]>> : c \in Range(r.calls) }
                      /\ recreated' = (recreated \/ \E c \in Range(r.calls) :
                                          c[4] /\ \E d \in calls : d[1] = c[1] /\ d[2] = c[2])
                 ELSE /\ log' = [seen EXCEPT !.cause = raised]
                      /\ UNCHANGED <<store, disk, downloads_found, history>>
    /\ UNCHANGED <<run, inputs, browser, rtype, rows, foldersAtStart>>

\* lines 125-126: the loop is over (exhausted or left by break).
FinishLoop ==
    /\ \/ pc = "after_loop"
       \/ pc = "loop" /\ i > Len(rows)
    /\ pc' = "cycle_end"
    /\ outcome' = [outcome EXCEPT ![rtype] = IF downloads_found = 0 THEN "nonew" ELSE "uploaded"]
    /\ UNCHANGED <<run, inputs, store, disk, browser, critical, rtype, locals, history,
                   allNormal, foldersAtStart>>

\* download_report returns to run_downloader, lines 162-163: its locals are
\* gone; after Quarterly comes Annual, after Annual the finally clause.
ReturnFromCycle ==
    /\ pc = "cycle_end"
    /\ pc' = IF rtype = "Quarterly" THEN "cycle" ELSE "finally"
    /\ rtype' = "Annual"
    /\ rows' = <<>>
    /\ i' = 1
    /\ downloads_found' = 0
    /\ log' = EmptyLog
    /\ UNCHANGED <<run, inputs, store, disk, browser, critical, outcome, history,
                   allNormal, foldersAtStart>>

\* Variant of Finally: the browser is quit only when the try block completed.
FinallyOnlyOnSuccess ==
    /\ pc = "finally"
    /\ pc' = "done"
    /\ browser' = IF browser = "open" /\ ~critical THEN "closed" ELSE browser
    /\ UNCHANGED <<run, inputs, store, disk, critical, rtype, outcome, locals, history,
                   allNormal, foldersAtStart>>

\* lines 167-169: finally: if driver: driver.quit()
Finally ==
    /\ pc = "finally"
    /\ pc' = "done"
    /\ browser' = IF browser = "open" THEN "closed" ELSE browser
    /\ UNCHANGED <<run, inputs, store, disk, critical, rtype, outcome, locals, history,
                   allNormal, foldersAtStart>>

\* The program is started again with the same arguments (lines 171-179);
\* the remote store and temp_reports are what the previous run left.
RunAgain ==
    /\ pc = "done"
    /\ run < MaxRuns
    /\ run' = run + 1
    /\ pc' = "auth"
    /\ browser' = "none"
    /\ critical' = FALSE
    /\ rtype' = "Quarterly"
    /\ outcome' = NoOutcome
    /\ rows' = <<>>
    /\ i' = 1
    /\ downloads_found' = 0
    /\ log' = EmptyLog
    /\ foldersAtStart' = store.folders
    /\ UNCHANGED <<inputs, store, disk, history, allNormal>>

Next ==
    \/ Authenticate
    \/ LaunchBrowser
    \/ OpenCompanyPage
    \/ OpenTab
    \/ ProcessRow
    \/ FinishLoop
    \/ ReturnFromCycle
    \/ Finally
    \/ RunAgain

Spec == Init /\ [][Next]_vars

\* ------------------------------------------------ vocabulary of the claims
\* The calendar day a well-formed date cell names, as YYYYMMDD; a cell that
\* is empty or names no calendar day is outside the domain.
CellDay == (DateNew :> 20240301) @@ (DateEq :> 20240101) @@ (DateOld :> 20231201)

CutoffDay == start_date_str[1] * 10000 + start_date_str[2] * 100 + start_date_str[3]

Dated(row) == row.ncells >= 2 /\ row.datecell \in DOMAIN CellDay
IsOlder(row) == Dated(row) /\ CellDay[row.datecell] < CutoffDay
Passes(row) == Dated(row) /\ CellDay[row.datecell] >= CutoffDay
Qualifies(row) == Passes(row) /\ row.pdf

\* Index of the first row dated before the cutoff; Len + 1 if there is none.
FirstOlder(rs) ==
    IF \E k \in 1..Len(rs) : IsOlder(rs[k])
    THEN CHOOSE k \in 1..Len(rs) : IsOlder(rs[k]) /\ \A j \in 1..(k - 1) : ~IsOlder(rs[j])
    ELSE Len(rs) + 1

RECURSIVE IndicesFrom(_, _, _)
IndicesFrom(rs, k, last) ==
    IF k > last THEN <<>>
    ELSE (IF Qualifies(rs[k]) THEN <<k>> ELSE <<>>) \o IndicesFrom(rs, k + 1, last)

\* The qualifying rows ahead of the first older row, in table order.
Leading(rs) == IndicesFrom(rs, 1, FirstOlder(rs) - 1)

UpTo(n) == [k \in 1..n |-> k]
Min(a, b) == IF a <= b THEN a ELSE b
Front(sq) == SubSeq(sq, 1, Len(sq) - 1)
IsPrefix(a, b) == Len(a) <= Len(b) /\ a = SubSeq(b, 1, Len(a))

CycleEndedNormally == pc = "cycle_end" /\ outcome[rtype] \in {"nonew", "uploaded"}

\* The title "<YYYY-MM-DD>-<code>.pdf" of the document of a date cell.
IsoDay == (DateNew :> <<2024, 3, 1>>) @@ (DateEq :> <<2024, 1, 1>>) @@ (DateOld :> <<2023, 12, 1>>)
ExpectedTitle(cell, code) == IsoDay[cell] \o <<code>>

\* The folders at /CSE Reports/<code>/<type> Reports.
DestFolders(type, code) ==
    { d \in store.folders :
        /\ d.name = type \o " Reports"
        /\ \E c \in store.folders, r \in store.folders :
              /\ d.parent = c.id /\ c.name = code
              /\ c.parent = r.id /\ r.name = "CSE Reports" /\ r.parent = RootId }

FilesIn(ds, title) ==
    { f \in store.files : f.name = title /\ \E d \in ds : f.parent = d.id }

\* ------------------------------------------------------------------ claims
\* C1: a cycle that ends normally has fetched and uploaded exactly the
\* qualifying rows ahead of the first row dated before the cutoff, in table
\* order, and has examined no row after that first older row; and a cycle
\* over a table whose rows all carry a date ends normally unless a fetch, an
\* upload or a file removal failed.
C1_CutoffPrefix ==
    /\ \A k \in Range(log.examined) : k <= FirstOlder(rows)
    /\ (/\ pc = "cycle_end"
        /\ rows # <<>>
        /\ \A k \in 1..Len(rows) : Dated(rows[k])
        /\ log.cause \notin {"fetch", "upload", "remove"}) => CycleEndedNormally
    /\ CycleEndedNormally =>
          /\ log.fetched = Leading(rows)
          /\ log.uploaded = Leading(rows)
          /\ log.examined = UpTo(Min(FirstOlder(rows), Len(rows)))

C1_Witness ==
    /\ CycleEndedNormally
    /\ FirstOlder(rows) < Len(rows)
    /\ Qualifies(rows[Len(rows)])

\* C2: at every row boundary and at the end of a cycle, however it ended, no
\* file this cycle wrote to temp_reports is still on disk.
C2_NoTransientFileRemains ==
    pc \in {"loop", "after_loop", "cycle_end"} =>
        \A k \in Range(log.written) :
            LocalFilename(StrptimeDMY(rows[k].datecell), company) \notin disk

\* C3: an exception in the Quarterly cycle never enters run_downloader's own
\* except clause; whenever the Quarterly cycle was run, the Annual cycle is
\* run as well, and only after the Quarterly cycle has ended.
C3_QuarterlyFailureIsolated ==
    /\ outcome["Quarterly"] = "error" => ~critical
    /\ (outcome["Quarterly"] # "none" /\ pc \in {"finally", "done"}) => outcome["Annual"] # "none"
    /\ (rtype = "Annual" /\ pc \in {"cycle", "loop", "after_loop", "cycle_end"}) =>
          outcome["Quarterly"] # "none"
    /\ outcome["Quarterly"] = "none" => outcome["Annual"] = "none"

C3_Witness ==
    /\ outcome["Quarterly"] = "error"
    /\ rtype = "Annual"
    /\ pc = "loop"

\* C4: the store never holds two folders of one name under one parent, every
\* get_or_create_folder call for one (name, parent) returned the same
\* identifier, and no call for an already resolved (name, parent) created a
\* folder.
C4_FolderResolutionIdempotent ==
    /\ \A f \in store.folders, g \in store.folders :
          (f.name = g.name /\ f.parent = g.parent) => f = g
    /\ \A c \in calls, d \in calls : (c[1] = d[1] /\ c[2] = d[2]) => c[3] = d[3]
    /\ ~recreated

C4_Witness ==
    /\ Cardinality(store.files) >= 2
    /\ Cardinality(calls) >= 3
    /\ store.folders # foldersAtStart

\* C5: when run_downloader has returned, no browser session is open.
C5_BrowserClosedOnExit ==
    pc = "done" => browser # "open"

C5_Witness ==
    /\ pc = "done"
    /\ browser = "closed"
    /\ critical

\* C6: a cycle whose table has zero rows, or in which no row is dated at or
\* after the cutoff, ends normally (not in the error outcome) with a count of
\* 0 and without a fetch or remote write, unless the tab itself timed out.
C6_EmptyIsNormal ==
    (/\ pc = "cycle_end"
     /\ log.cause # "timeout"
     /\ page[rtype].container /\ page[rtype].tbody
     /\ \A k \in 1..Len(page[rtype].rows) : ~Passes(page[rtype].rows[k]))
    => /\ outcome[rtype] \in {"nonew", "returned"}
       /\ downloads_found = 0
       /\ log.fetched = <<>>

\* C7: a malformed row never ends the cycle: unless a fetch, an upload or a
\* file removal failed, a cycle that entered the loop ends normally having
\* uploaded every qualifying row ahead of the first older row.
C7_MalformedRowSkipped ==
    (/\ pc = "cycle_end"
     /\ rows # <<>>
     /\ log.cause \notin {"fetch", "upload", "remove"})
    => /\ outcome[rtype] # "error"
       /\ log.uploaded = Leading(rows)

\* C8: once the fetch of a qualifying row has failed, the cycle is over in the
\* error outcome: the rows fetched are a prefix of the qualifying rows ending
\* with the failed one, fetched once; exactly the earlier ones were written,
\* uploaded and counted; no later row was examined.
C8_FetchFailureAborts ==
    log.failedFetch # 0 =>
        /\ pc = "cycle_end"
        /\ outcome[rtype] = "error"
        /\ IsPrefix(log.fetched, Leading(rows))
        /\ log.fetched # <<>>
        /\ log.fetched[Len(log.fetched)] = log.failedFetch
        /\ log.uploaded = Front(log.fetched)
        /\ log.written = Front(log.fetched)
        /\ downloads_found = Len(log.fetched) - 1
        /\ log.examined = UpTo(log.failedFetch)

C8_Witness ==
    /\ log.failedFetch = 2
    /\ log.uploaded = <<1>>
    /\ pc = "cycle_end"

\* C9: when the first run raised nothing, the second run creates no folder,
\* and when the second run has ended without raising either, the destination
\* folder of each report type holds two files for each qualifying record.
C9_SecondRunDuplicatesFiles ==
    (run = 2 /\ allNormal) =>
        /\ store.folders = foldersAtStart
        /\ pc = "done" =>
              \A t \in TypeSet :
                \A k \in 1..Len(page[t].rows) :
                  LET title == IF Dated(page[t].rows[k])
                               THEN ExpectedTitle(page[t].rows[k].datecell, company)
                               ELSE <<>>
                      same == { j \in Range(Leading(page[t].rows)) :
                                  page[t].rows[j].datecell = page[t].rows[k].datecell }
                  IN  Dated(page[t].rows[k]) =>
                        Cardinality(FilesIn(DestFolders(t, company), title)) = 2 * Cardinality(same)

C9_Witness ==
    /\ run = 2
    /\ allNormal
    /\ pc = "done"
    /\ Cardinality(store.files) >= 2
    /\ \E t \in TypeSet : Leading(page[t].rows) # <<>>

\* C10: every file of the store is titled after the date of a qualifying row
\* of one report type and the company code, and lies in that report type's
\* folder under the company's folder under "CSE Reports" under the root.
C10_FilesWellPlaced ==
    \A f \in store.files :
        \E t \in TypeSet :
            /\ \E d \in DestFolders(t, company) : f.parent = d.id
            /\ \E k \in 1..Len(page[t].rows) :
                  /\ Qualifies(page[t].rows[k])
                  /\ f.name = ExpectedTitle(page[t].rows[k].datecell, company)

C10_Witness ==
    /\ FilesIn(DestFolders("Quarterly", company),
               ExpectedTitle(DateNew, company)) # {}
    /\ FilesIn(DestFolders("Annual", company),
               ExpectedTitle(DateEq, company)) # {}
====
